---------------------------- MODULE Spec2Model ----------------------------
(***************************************************************************)
(* The comment aggregation pipeline of sentiment_sum/analyzer/sentiment.py *)
(* (preprocess_comments, chunk_comments, generate_summary,                 *)
(* aggregate_summaries, analyze_sentiment) with the theme report of        *)
(* theme_analysis.py.                                                      *)
(*                                                                         *)
(* A Python str is a sequence of one-character strings, so that strip,     *)
(* split, join and the spam regular expressions are computed character by  *)
(* character.  The external capabilities (TfidfVectorizer and              *)
(* cosine_similarity, the summarizer, VADER, DistilBERT, the OpenAI        *)
(* client) are inputs: every call draws its outcome from a small set.      *)
(***************************************************************************)
EXTENDS Integers, Sequences, FiniteSets, TLC

VARIABLES
    pc,                   \* position in the function under execution
    comments,             \* argument of preprocess_comments / chunk_comments / analyze_sentiment
    filtered_comments,    \* preprocess_comments: survivors of trim, dedupe and spam filter
    similarity_matrix,    \* preprocess_comments: the cosine_similarity matrix, once computed
    groups,               \* preprocess_comments: the dict representative -> members, in insertion order
    processed_comments,   \* result of preprocess_comments
    chunk_size,           \* chunk_comments: the token budget
    parts,                \* chunk_comments: the current_chunk lists, one per appended chunk
    chunks,               \* result of chunk_comments
    summarizer_calls,     \* the (word count, max_length, min_length) of every summarizer call
    chunk_replies,        \* what the summarizer answered per chunk ("raise" or its text)
    chunk_summaries,      \* analyze_sentiment: [generate_summary(chunk) for chunk in chunks]
    aggregate_reply,      \* what the summarizer answered to the aggregation call
    final_summary,        \* result of aggregate_summaries
    idx,                  \* number of processed comments the scoring loop has consumed
    vader_scores,         \* {"pos", "neu", "neg"} tallies
    distilbert_scores,    \* {"POSITIVE", "NEGATIVE"} tallies
    detailed_sentiment,   \* one record per comment whose label call succeeded
    total_vader_score,    \* sum of compound scores (hundredths) over valid comments
    total_distilbert_score, \* sum of label confidences (hundredths) over valid comments
    valid_comments,       \* number of comments whose label call succeeded
    total,                \* sum(vader_scores.values()), floored at 1
    sentiment_data,       \* the rounded percentages and averages (hundredths)
    grouped_comments,     \* generate_theme_analysis: _group_comments_by_sentiment(detailed_sentiment)
    theme_reply,          \* generate_theme_analysis: what the text-generation call did
    result                \* what analyze_sentiment returned, in a sequence of length 1

vars == <<pc, comments, filtered_comments, similarity_matrix, groups,
          processed_comments, chunk_size,
          parts, chunks, summarizer_calls, chunk_replies, chunk_summaries,
          aggregate_reply, final_summary, idx, vader_scores, distilbert_scores,
          detailed_sentiment, total_vader_score, total_distilbert_score,
          valid_comments, total, sentiment_data, grouped_comments, theme_reply,
          result>>

-----------------------------------------------------------------------------
(* Bounds of the model.                                                     *)

\* longest input of preprocess_comments drawn from SpamPool
MaxSpamLen == 2
\* longest input of preprocess_comments drawn from GroupPool
MaxGroupLen == 3
\* longest input of chunk_comments
MaxChunkInput == 3
\* largest token budget tried for chunk_comments
MaxBudget == 3
\* most chunks handed to the summarization steps
MaxChunks == 3
\* longest input of analyze_sentiment
MaxComments == 2
\* the longest processed_comments the scoring loop is run on by itself
MaxScored == 2
\* the longest processed_comments scored before a theme report is generated
MaxThemed == 1

-----------------------------------------------------------------------------
(* Characters.                                                              *)

Uppers == <<"A", "B", "C", "D", "E", "F", "G", "H", "I", "J", "K", "L", "M",
            "N", "O", "P", "Q", "R", "S", "T", "U", "V", "W", "X", "Y", "Z">>
Lowers == <<"a", "b", "c", "d", "e", "f", "g", "h", "i", "j", "k", "l", "m",
            "n", "o", "p", "q", "r", "s", "t", "u", "v", "w", "x", "y", "z">>
Digits == {"0", "1", "2", "3", "4", "5", "6", "7", "8", "9"}

Range(f) == {f[i] : i \in DOMAIN f}

\* str.strip() / str.split() whitespace
Whitespace == {" ", "\t", "\n", "\r"}
\* regex [A-Z]
UpperCase == Range(Uppers)
\* regex \w (ASCII part)
WordChar == Range(Uppers) \cup Range(Lowers) \cup Digits \cup {"_"}
\* regex . (no re.DOTALL): anything but a newline
Dot(c) == c # "\n"
\* str.lower() of one character
Lower(c) == IF c \in UpperCase
            THEN Lowers[CHOOSE i \in DOMAIN Uppers : Uppers[i] = c]
            ELSE c

-----------------------------------------------------------------------------
(* str operations.                                                          *)

RECURSIVE LStrip(_)
LStrip(s) == IF s # <<>> /\ Head(s) \in Whitespace THEN LStrip(Tail(s)) ELSE s

RECURSIVE RStrip(_)
RStrip(s) == IF s # <<>> /\ s[Len(s)] \in Whitespace
             THEN RStrip(SubSeq(s, 1, Len(s) - 1))
             ELSE s

\* c.strip()
Strip(s) == RStrip(LStrip(s))

\* the positions where a whitespace-delimited token of s starts
TokenStarts(s) == {i \in 1..Len(s) : s[i] \notin Whitespace /\ (i = 1 \/ s[i-1] \in Whitespace)}

\* len(s.split())
WordCount(s) == Cardinality(TokenStarts(s))

\* " ".join(strs)
RECURSIVE Join(_)
Join(strs) == IF strs = <<>> THEN <<>>
              ELSE IF Len(strs) = 1 THEN strs[1]
              ELSE strs[1] \o <<" ">> \o Join(Tail(strs))

\* lst1 + lst2 + ... for a list of lists
RECURSIVE Flatten(_)
Flatten(ls) == IF ls = <<>> THEN <<>> ELSE Head(ls) \o Flatten(Tail(ls))

\* sub in s
Contains(s, sub) ==
    \E i \in 1..(Len(s) - Len(sub) + 1) : SubSeq(s, i, i + Len(sub) - 1) = sub

\* s.startswith(prefix)
StartsWith(s, prefix) == Len(s) >= Len(prefix) /\ SubSeq(s, 1, Len(prefix)) = prefix

\* s.split(sep): cut at each occurrence of sep, found left to right
RECURSIVE SplitOn(_, _)
SplitOn(s, sep) ==
    IF ~Contains(s, sep) THEN <<s>>
    ELSE LET i == CHOOSE k \in 1..Len(s) :
                      /\ SubSeq(s, k, k + Len(sep) - 1) = sep
                      /\ \A l \in 1..(k - 1) : SubSeq(s, l, l + Len(sep) - 1) # sep
         IN  <<SubSeq(s, 1, i - 1)>> \o SplitOn(SubSeq(s, i + Len(sep), Len(s)), sep)

\* the sequences over S of length at most n
SeqsUpTo(S, n) == UNION {[1..k -> S] : k \in 0..n}

\* the orders in which iterating a set may yield its elements
Orders(S) == {o \in [1..Cardinality(S) -> S] : \A i, j \in DOMAIN o : o[i] = o[j] => i = j}

-----------------------------------------------------------------------------
(* The comments the inputs are drawn from.                                  *)

\* ''
sEmpty ==
    <<>>
\* ' \n'
sBlank ==
    <<" ", "\n">>
\* 'hi'
sHi ==
    <<"h", "i">>
\* ' meh '
sMehPad ==
    <<" ", "m", "e", "h", " ">>
\* 'aaaaa'
sAaaaa ==
    <<"a", "a", "a", "a", "a">>
\* 'THIS IS ALL CAPS'
sAllCaps ==
    <<"T", "H", "I", "S", " ", "I", "S", " ", "A", "L", "L", " ", "C", "A", "P", "S">>
\* 'wow!!!'
sWow ==
    <<"w", "o", "w", "!", "!", "!">>
\* 'This is a fine comment.'
sFine ==
    <<"T", "h", "i", "s", " ", "i", "s", " ", "a", " ", "f", "i", "n", "e", " ", "c",
    "o", "m", "m", "e", "n", "t", ".">>
\* 'SHOUTINGLY'
sTenCaps ==
    <<"S", "H", "O", "U", "T", "I", "N", "G", "L", "Y">>
\* 'SHOUTINGS'
sNineCaps ==
    <<"S", "H", "O", "U", "T", "I", "N", "G", "S">>
\* 'aaaab'
sFourRep ==
    <<"a", "a", "a", "a", "b">>
\* 'no!!'
sTwoBang ==
    <<"n", "o", "!", "!">>
\* 'good'
sGood ==
    <<"g", "o", "o", "d">>
\* ' good '
sGoodPad ==
    <<" ", "g", "o", "o", "d", " ">>
\* 'nice'
sNice ==
    <<"n", "i", "c", "e">>
\* 'good food'
sGoodFood ==
    <<"g", "o", "o", "d", " ", "f", "o", "o", "d">>
\* 'the and'
sTheAnd ==
    <<"t", "h", "e", " ", "a", "n", "d">>
\* 'is of'
sIsOf ==
    <<"i", "s", " ", "o", "f">>
\* 'not bad at all'
sNotBad ==
    <<"n", "o", "t", " ", "b", "a", "d", " ", "a", "t", " ", "a", "l", "l">>
\* 'Summary generation failed'
sFailed ==
    <<"S", "u", "m", "m", "a", "r", "y", " ", "g", "e", "n", "e", "r", "a", "t", "i",
    "o", "n", " ", "f", "a", "i", "l", "e", "d">>
\* 'Service was good. ok. Food was cold'
sAggTwo ==
    <<"S", "e", "r", "v", "i", "c", "e", " ", "w", "a", "s", " ", "g", "o", "o", "d",
    ".", " ", "o", "k", ".", " ", "F", "o", "o", "d", " ", "w", "a", "s", " ", "c",
    "o", "l", "d">>
\* 'ok. fine.'
sAggNone ==
    <<"o", "k", ".", " ", "f", "i", "n", "e", ".">>
\* 'Point one is ok. Point two is ok. Point 3 is here. Point 4 is here. Point 5 is here. Point 6 is here.'
sAggSix ==
    <<"P", "o", "i", "n", "t", " ", "o", "n", "e", " ", "i", "s", " ", "o", "k", ".",
    " ", "P", "o", "i", "n", "t", " ", "t", "w", "o", " ", "i", "s", " ", "o", "k",
    ".", " ", "P", "o", "i", "n", "t", " ", "3", " ", "i", "s", " ", "h", "e", "r",
    "e", ".", " ", "P", "o", "i", "n", "t", " ", "4", " ", "i", "s", " ", "h", "e",
    "r", "e", ".", " ", "P", "o", "i", "n", "t", " ", "5", " ", "i", "s", " ", "h",
    "e", "r", "e", ".", " ", "P", "o", "i", "n", "t", " ", "6", " ", "i", "s", " ",
    "h", "e", "r", "e", ".">>
\* 'No comments to analyze.'
sNoComments ==
    <<"N", "o", " ", "c", "o", "m", "m", "e", "n", "t", "s", " ", "t", "o", " ", "a",
    "n", "a", "l", "y", "z", "e", ".">>
\* 'No specific themes identified'
sNoThemes ==
    <<"N", "o", " ", "s", "p", "e", "c", "i", "f", "i", "c", " ", "t", "h", "e", "m",
    "e", "s", " ", "i", "d", "e", "n", "t", "i", "f", "i", "e", "d">>
\* 'No detailed explanation available'
sNoExplanation ==
    <<"N", "o", " ", "d", "e", "t", "a", "i", "l", "e", "d", " ", "e", "x", "p", "l",
    "a", "n", "a", "t", "i", "o", "n", " ", "a", "v", "a", "i", "l", "a", "b", "l",
    "e">>
\* 'Error generating themes'
sErrorThemes ==
    <<"E", "r", "r", "o", "r", " ", "g", "e", "n", "e", "r", "a", "t", "i", "n", "g",
    " ", "t", "h", "e", "m", "e", "s">>
\* 'Unable to generate theme analysis at this time. Error: '
sUnable ==
    <<"U", "n", "a", "b", "l", "e", " ", "t", "o", " ", "g", "e", "n", "e", "r", "a",
    "t", "e", " ", "t", "h", "e", "m", "e", " ", "a", "n", "a", "l", "y", "s", "i",
    "s", " ", "a", "t", " ", "t", "h", "i", "s", " ", "t", "i", "m", "e", ".", " ",
    "E", "r", "r", "o", "r", ":", " ">>
\* 'Error extracting explanation'
sErrorExplanation ==
    <<"E", "r", "r", "o", "r", " ", "e", "x", "t", "r", "a", "c", "t", "i", "n", "g",
    " ", "e", "x", "p", "l", "a", "n", "a", "t", "i", "o", "n">>
\* 'Main Themes'
sMainThemes ==
    <<"M", "a", "i", "n", " ", "T", "h", "e", "m", "e", "s">>
\* 'Summary of Main Themes'
sSummaryOfMainThemes ==
    <<"S", "u", "m", "m", "a", "r", "y", " ", "o", "f", " ", "M", "a", "i", "n", " ",
    "T", "h", "e", "m", "e", "s">>
\* 'Explanation'
sExplanation ==
    <<"E", "x", "p", "l", "a", "n", "a", "t", "i", "o", "n">>
\* 'Classification'
sClassification ==
    <<"C", "l", "a", "s", "s", "i", "f", "i", "c", "a", "t", "i", "o", "n">>
\* 'Sentiment Analysis'
sSentimentAnalysis ==
    <<"S", "e", "n", "t", "i", "m", "e", "n", "t", " ", "A", "n", "a", "l", "y", "s",
    "i", "s">>
\* '### Main Themes\n1. Price\n- **Service**\n### Explanation\nTone is *positive*.\nClear praise.'
sReplySections ==
    <<"#", "#", "#", " ", "M", "a", "i", "n", " ", "T", "h", "e", "m", "e", "s", "\n",
    "1", ".", " ", "P", "r", "i", "c", "e", "\n", "-", " ", "*", "*", "S", "e", "r",
    "v", "i", "c", "e", "*", "*", "\n", "#", "#", "#", " ", "E", "x", "p", "l", "a",
    "n", "a", "t", "i", "o", "n", "\n", "T", "o", "n", "e", " ", "i", "s", " ", "*",
    "p", "o", "s", "i", "t", "i", "v", "e", "*", ".", "\n", "C", "l", "e", "a", "r",
    " ", "p", "r", "a", "i", "s", "e", ".">>
\* 'Nothing to report'
sReplyPlain ==
    <<"N", "o", "t", "h", "i", "n", "g", " ", "t", "o", " ", "r", "e", "p", "o", "r",
    "t">>
\* 'Overview\nMixed tone\nExplanation'
sReplyTail ==
    <<"O", "v", "e", "r", "v", "i", "e", "w", "\n", "M", "i", "x", "e", "d", " ", "t",
    "o", "n", "e", "\n", "E", "x", "p", "l", "a", "n", "a", "t", "i", "o", "n">>
\* 'A'
sThemeA ==
    <<"A">>
\* 'B'
sThemeB ==
    <<"B">>
\* 'E'
sExplE ==
    <<"E">>
\* 'Great service!'
sGreatService ==
    <<"G", "r", "e", "a", "t", " ", "s", "e", "r", "v", "i", "c", "e", "!">>
\* 'Terrible, broke immediately.'
sTerrible ==
    <<"T", "e", "r", "r", "i", "b", "l", "e", ",", " ", "b", "r", "o", "k", "e", " ",
    "i", "m", "m", "e", "d", "i", "a", "t", "e", "l", "y", ".">>
\* 'meh'
sMeh ==
    <<"m", "e", "h">>
\* 'timeout'
sApiError ==
    <<"t", "i", "m", "e", "o", "u", "t">>
\* "object of type 'NoneType' has no len()"
sNoLen ==
    <<"o", "b", "j", "e", "c", "t", " ", "o", "f", " ", "t", "y", "p", "e", " ", "'",
    "N", "o", "n", "e", "T", "y", "p", "e", "'", " ", "h", "a", "s", " ", "n", "o",
    " ", "l", "e", "n", "(", ")">>
\* 'Explanation\n---\nMixed tone'
sReplyRule ==
    <<"E", "x", "p", "l", "a", "n", "a", "t", "i", "o", "n", "\n", "-", "-", "-", "\n", 
    "M", "i", "x", "e", "d", " ", "t", "o", "n", "e">>
\* 'Main Themes\n1.Price\n2. Service\nExplanation\nNone'
sReplyTight ==
    <<"M", "a", "i", "n", " ", "T", "h", "e", "m", "e", "s", "\n", "1", ".", "P", "r", 
    "i", "c", "e", "\n", "2", ".", " ", "S", "e", "r", "v", "i", "c", "e", "\n", "E", 
    "x", "p", "l", "a", "n", "a", "t", "i", "o", "n", "\n", "N", "o", "n", "e">>

\* the inputs that exercise trimming and the spam filter
SpamPool == {sEmpty, sBlank, sHi, sMehPad, sAaaaa, sAllCaps, sWow, sFine,
             sTenCaps, sNineCaps, sFourRep, sTwoBang}
\* the input of the end-to-end scenario
EndToEndInput == <<sGreatService, sGreatService, sTerrible, sMeh>>

\* the inputs that exercise deduplication, vectorization and grouping
GroupPool == {sEmpty, sGood, sGoodPad, sNice, sGoodFood, sTheAnd, sIsOf}

-----------------------------------------------------------------------------
(* preprocess_comments: trimming, deduplication and the spam filter.        *)

\* '^.{0,3}$'
ShortLen == 3
\* '(.)\1{4,}': a character and at least this many repetitions of it
RepeatMore == 4
\* '[A-Z]{10,}'
CapsRun == 10
\* '[!]{3,}'
BangRun == 3

\* a variant of NonEmptyStripped that tests c.strip() but keeps c untrimmed
NonEmptyUnstripped(cs) == SelectSeq(cs, LAMBDA c : Strip(c) # <<>>)

\* [c.strip() for c in comments if c.strip()]
NonEmptyStripped(cs) ==
    SelectSeq([i \in DOMAIN cs |-> Strip(cs[i])], LAMBDA c : c # <<>>)

\* a variant of ListOfSet that keeps every occurrence
ListKeepingAll(cs) == {cs}

\* list(set(comments)): the distinct elements, in whatever order the set yields them
ListOfSet(cs) == Orders(Range(cs))

\* re.search(r'^.{0,3}$', s): "$" also matches before a newline that ends s
MatchesShort(s) ==
    \/ Len(s) <= ShortLen /\ \A i \in 1..Len(s) : Dot(s[i])
    \/ /\ Len(s) >= 1
       /\ Len(s) <= ShortLen + 1
       /\ s[Len(s)] = "\n"
       /\ \A i \in 1..(Len(s) - 1) : Dot(s[i])

\* re.search(r'(.)\1{4,}', s)
MatchesRepeat(s) ==
    \E i \in 1..(Len(s) - RepeatMore) :
        Dot(s[i]) /\ \A k \in 1..RepeatMore : s[i + k] = s[i]

\* re.search(r'[A-Z]{10,}', s)
MatchesCaps(s) ==
    \E i \in 1..(Len(s) - CapsRun + 1) : \A k \in 0..(CapsRun - 1) : s[i + k] \in UpperCase

\* re.search(r'[!]{3,}', s)
MatchesBangs(s) ==
    \E i \in 1..(Len(s) - BangRun + 1) : \A k \in 0..(BangRun - 1) : s[i + k] = "!"

\* any(re.search(pattern, comment) for pattern in spam_patterns)
IsSpam(s) == MatchesShort(s) \/ MatchesRepeat(s) \/ MatchesCaps(s) \/ MatchesBangs(s)

\* the loop that fills filtered_comments
FilterSpam(cs) == SelectSeq(cs, LAMBDA c : ~IsSpam(c))

-----------------------------------------------------------------------------
(* preprocess_comments: TfidfVectorizer(stop_words='english') and           *)
(* cosine_similarity.  The vocabulary is computed (it decides whether       *)
(* fit_transform raises); the similarity values are an input.               *)

\* the entries of sklearn's English stop word list that occur in the pools
StopWords == {<<"t", "h", "e">>, <<"a", "n", "d">>, <<"i", "s">>, <<"o", "f">>,
              <<"t", "h", "i", "s">>, <<"a", "l", "l">>, <<"n", "o", "t">>,
              <<"a", "t">>, <<"n", "o">>}

\* token_pattern r"(?u)\b\w\w+\b": the maximal runs of two or more word characters
TokenSpans(s) ==
    {sp \in (1..Len(s)) \X (1..Len(s)) :
        /\ sp[1] < sp[2]
        /\ \A i \in sp[1]..sp[2] : s[i] \in WordChar
        /\ sp[1] = 1 \/ s[sp[1] - 1] \notin WordChar
        /\ sp[2] = Len(s) \/ s[sp[2] + 1] \notin WordChar}

\* the lowercased tokens of one document that are not stop words
Terms(s) ==
    {[i \in 1..(sp[2] - sp[1] + 1) |-> Lower(s[sp[1] + i - 1])] : sp \in TokenSpans(s)}
        \ StopWords

\* vectorizer.fit_transform raises ValueError("empty vocabulary") when this is empty
Vocabulary(docs) == UNION {Terms(docs[i]) : i \in DOMAIN docs}

\* cosine similarities in hundredths: below, at and above the threshold
SimValues == {0, 70, 71}

Pairs(n) == {p \in (1..n) \X (1..n) : p[1] < p[2]}

\* the matrices cosine_similarity may return above the diagonal: a document
\* without terms is the zero vector and has similarity 0 to every other
SimMatrices(docs) ==
    LET empty == {i \in DOMAIN docs : Terms(docs[i]) = {}}
        free == {p \in Pairs(Len(docs)) : p[1] \notin empty /\ p[2] \notin empty}
    IN  {[p \in Pairs(Len(docs)) |-> IF p \in free THEN f[p] ELSE 0] :
            f \in [free -> SimValues]}

-----------------------------------------------------------------------------
(* preprocess_comments: the grouping loop.                                  *)

\* similarity threshold 0.7, in hundredths
Threshold == 70

\* similarity_matrix[i, j] > 0.7
Similar(m, i, j) == m[<<i, j>>] > Threshold

\* a variant of the inner loop that compares j with every member of the group
RECURSIVE ChainLoop(_, _, _, _, _)
ChainLoop(members, j, used_indices, n, m) ==
    IF j > n THEN <<>>
    ELSE IF j \notin used_indices /\ \E k \in members : m[<<k, j>>] > Threshold
    THEN <<j>> \o ChainLoop(members \cup {j}, j + 1, used_indices, n, m)
    ELSE ChainLoop(members, j + 1, used_indices, n, m)

AbsorbChained(i, j, used_indices, n, m) == ChainLoop({i}, j, used_indices, n, m)

\* the inner loop: the j in i+1..n, ascending, that join the group seeded by i
RECURSIVE Absorb(_, _, _, _, _)
Absorb(i, j, used_indices, n, m) ==
    IF j > n THEN <<>>
    ELSE (IF j \notin used_indices /\ Similar(m, i, j) THEN <<j>> ELSE <<>>)
             \o Absorb(i, j + 1, used_indices, n, m)

\* a variant of Representative that takes the last element of maximal length
RepresentativeLast(group_comments) ==
    group_comments[CHOOSE k \in DOMAIN group_comments :
        /\ \A l \in DOMAIN group_comments : Len(group_comments[l]) <= Len(group_comments[k])
        /\ \A l \in (k + 1)..Len(group_comments) :
               Len(group_comments[l]) < Len(group_comments[k])]

\* max(group_comments, key=len): the first element of maximal length
Representative(group_comments) ==
    group_comments[CHOOSE k \in DOMAIN group_comments :
        /\ \A l \in DOMAIN group_comments : Len(group_comments[l]) <= Len(group_comments[k])
        /\ \A l \in 1..(k - 1) : Len(group_comments[l]) < Len(group_comments[k])]

\* groups[representative].extend(group_comments) on a defaultdict(list)
Extend(gs, representative, group_comments) ==
    IF \E g \in DOMAIN gs : gs[g].key = representative
    THEN [g \in DOMAIN gs |->
            IF gs[g].key = representative
            THEN [gs[g] EXCEPT !.members = @ \o group_comments]
            ELSE gs[g]]
    ELSE Append(gs, [key |-> representative, members |-> group_comments])

\* for i in range(len(filtered_comments)): ...
RECURSIVE GroupLoop(_, _, _, _, _)
GroupLoop(i, used_indices, gs, fc, m) ==
    IF i > Len(fc) THEN gs
    ELSE IF i \in used_indices THEN GroupLoop(i + 1, used_indices, gs, fc, m)
    ELSE LET current_group == <<i>> \o Absorb(i, i + 1, used_indices, Len(fc), m)
             group_comments == [k \in DOMAIN current_group |-> fc[current_group[k]]]
         IN  GroupLoop(i + 1, used_indices \cup Range(current_group),
                       Extend(gs, Representative(group_comments), group_comments), fc, m)

\* list(groups.keys())
Keys(gs) == [g \in DOMAIN gs |-> gs[g].key]

\* every way a call preprocess_comments(cs) can end
preprocess_comments(cs) ==
    IF cs = <<>>
    THEN {[raised |-> FALSE, filtered |-> <<>>, similarity_matrix |-> <<>>,
           groups |-> <<>>, out |-> <<>>]}
    ELSE UNION {
        LET fc == FilterSpam(order)
        IN  IF Len(fc) > 1
            THEN IF Vocabulary(fc) = {}
                 THEN {[raised |-> TRUE, filtered |-> fc, similarity_matrix |-> <<>>,
                        groups |-> <<>>, out |-> <<>>]}
                 ELSE {[raised |-> FALSE, filtered |-> fc, similarity_matrix |-> <<m>>,
                        groups |-> GroupLoop(1, {}, <<>>, fc, m),
                        out |-> Keys(GroupLoop(1, {}, <<>>, fc, m))] :
                          m \in SimMatrices(fc)}
            ELSE {[raised |-> FALSE, filtered |-> fc, similarity_matrix |-> <<>>,
                   groups |-> <<>>, out |-> fc]}
        : order \in ListOfSet(NonEmptyStripped(cs))}


-----------------------------------------------------------------------------
(* chunk_comments.                                                          *)

\* chunk_size=30
DefaultChunkSize == 30

\* the comments chunk_comments is tried on: 1, 1, 2 and 4 tokens
ChunkPool == {sGood, sNice, sGoodFood, sNotBad}

\* a variant of ClosesChunk that leaves the new comment's tokens out of the test
ClosesChunkLate(current_length, comment_length, size, current_chunk) ==
    current_length > size /\ current_chunk # <<>>

\* if current_length + comment_length > chunk_size and current_chunk
ClosesChunk(current_length, comment_length, size, current_chunk) ==
    current_length + comment_length > size /\ current_chunk # <<>>

\* a variant of LastChunk that forgets the chunk still open when the loop ends
LastChunkDropped(done, current_chunk) == done

\* if current_chunk: chunks.append(" ".join(current_chunk))
LastChunk(done, current_chunk) ==
    IF current_chunk # <<>> THEN Append(done, current_chunk) ELSE done

\* the loop over comments; done holds the current_chunk lists already appended
RECURSIVE ChunkLoop(_, _, _, _, _)
ChunkLoop(rest, done, current_chunk, current_length, size) ==
    IF rest = <<>> THEN LastChunk(done, current_chunk)
    ELSE LET comment == Head(rest)
             comment_length == WordCount(comment)
         IN  IF ClosesChunk(current_length, comment_length, size, current_chunk)
             THEN ChunkLoop(Tail(rest), Append(done, current_chunk), <<comment>>,
                            comment_length, size)
             ELSE ChunkLoop(Tail(rest), done, Append(current_chunk, comment),
                            current_length + comment_length, size)

\* the current_chunk lists behind the chunks of chunk_comments(cs, size)
ChunkParts(cs, size) == ChunkLoop(cs, <<>>, <<>>, 0, size)

\* chunk_comments(cs, size): each appended list joined with single spaces
chunk_comments(cs, size) ==
    [k \in DOMAIN ChunkParts(cs, size) |-> Join(ChunkParts(cs, size)[k])]

-----------------------------------------------------------------------------
(* generate_summary and aggregate_summaries.                                *)

Min(a, b) == IF a <= b THEN a ELSE b

\* a summarizer call that raised, and one that returned text
Raised == [ok |-> FALSE, text |-> <<>>]
Returned(t) == [ok |-> TRUE, text |-> t]

\* the (max_length, min_length) generate_summary passes for a text of n tokens
SummaryLengths(n) ==
    IF n < 50 THEN <<Min(n, 20), Min(n \div 2, 10)>>
    ELSE IF n < 200 THEN <<Min(n \div 2, 100), Min(n \div 4, 30)>>
    ELSE <<Min(n \div 3, 150), Min(n \div 6, 50)>>

\* the (max_length, min_length) aggregate_summaries passes
AggregateLengths(n) == <<Min(n \div 2, 150), Min(n \div 4, 50)>>

\* a variant of generate_summary whose except branch returns an empty string
generate_summary_blank(text, reply) == IF reply.ok THEN reply.text ELSE <<>>

\* generate_summary(text) when the summarizer answers reply
generate_summary(text, reply) == IF reply.ok THEN reply.text ELSE sFailed

\* a bullet point must be longer than this
MinPointLen == 10
\* bullet_points[:5]
MaxPoints == 5

\* [point.strip() for point in final_summary.split('.') if point.strip() and len(point.strip()) > 10][:5]
BulletPoints(final_text) ==
    LET points == SelectSeq([i \in DOMAIN SplitOn(final_text, <<".">>) |->
                                Strip(SplitOn(final_text, <<".">>)[i])],
                            LAMBDA p : p # <<>> /\ Len(p) > MinPointLen)
    IN  SubSeq(points, 1, Min(Len(points), MaxPoints))

\* a variant of aggregate_summaries whose except branch returns an empty list
aggregate_summaries_empty(summaries, reply) ==
    IF summaries = <<>> THEN <<>>
    ELSE IF reply.ok THEN BulletPoints(reply.text)
    ELSE <<>>

\* aggregate_summaries(summaries) when the summarizer answers reply
aggregate_summaries(summaries, reply) ==
    IF summaries = <<>> THEN <<>>
    ELSE IF reply.ok THEN BulletPoints(reply.text)
    ELSE summaries

\* the texts handed to the summarization steps
ChunkTexts == {sGood, sGoodFood}
\* what the summarizer may answer for a chunk
SummaryReplies == {Raised, Returned(sNice), Returned(sGoodFood)}
\* what the summarizer may answer to the aggregation call
AggregateReplies == {Raised, Returned(sAggTwo), Returned(sAggNone), Returned(sAggSix)}

-----------------------------------------------------------------------------
(* The scoring loop and the percentages of analyze_sentiment.  Scores,      *)
(* percentages and averages are integers in hundredths.                     *)

\* vs["compound"] >= 0.05 and <= -0.05, in hundredths
PolarityCut == 5
\* vader_positive * 0.3 + distilbert_positive * 0.7, the weights in hundredths
VaderWeight == 30
DistilbertWeight == 70
\* one hundred percent
Hundred == 100

\* what vader.polarity_scores may do: raise, or a compound score (the two
\* cut-off values included)
PolarityReplies ==
    {[ok |-> FALSE, compound |-> 0]}
        \cup {[ok |-> TRUE, compound |-> c] :
                  c \in {0 - 50, 0 - PolarityCut, 0, PolarityCut, 50}}

\* what distilbert_pipeline may do: raise, answer a label with its confidence,
\* or answer a dict that has a label and no 'score' key
LabelReplies ==
    {[ok |-> FALSE, label |-> "POSITIVE", has_score |-> FALSE, score |-> 0],
     [ok |-> TRUE, label |-> "POSITIVE", has_score |-> TRUE, score |-> 90],
     [ok |-> TRUE, label |-> "NEGATIVE", has_score |-> TRUE, score |-> 60],
     [ok |-> TRUE, label |-> "POSITIVE", has_score |-> FALSE, score |-> 0]}

\* the vader_scores key a compound score is counted under
PolarityKey(compound) ==
    IF compound >= PolarityCut THEN "pos"
    ELSE IF compound <= 0 - PolarityCut THEN "neg"
    ELSE "neu"

\* total = sum(vader_scores.values()); if total == 0: total = 1
Total(vs) ==
    IF vs.pos + vs.neu + vs.neg = 0 THEN 1 ELSE vs.pos + vs.neu + vs.neg

\* round(a / b, 2) of a value held in hundredths, b > 0: to nearest, ties to even
RoundDiv(a, b) ==
    LET q == a \div b
        r == a % b
    IN  IF 2 * r < b THEN q
        ELSE IF 2 * r > b THEN q + 1
        ELSE IF q % 2 = 0 THEN q ELSE q + 1

\* a variant of FinalPositive with the two weights exchanged
FinalPositiveSwapped(vs, ds) ==
    DistilbertWeight * (vs.pos * Hundred) + VaderWeight * (ds.POSITIVE * Hundred)

\* final_positive * total, in hundredths of a percent
FinalPositive(vs, ds) ==
    VaderWeight * (vs.pos * Hundred) + DistilbertWeight * (ds.POSITIVE * Hundred)

\* a variant of FinalNegative that also takes the neutral share off
FinalNegativeOfRest(vs, ds, t) ==
    Hundred * Hundred * t - FinalPositive(vs, ds) - Hundred * Hundred * vs.neu

\* final_negative * total, with final_negative = 100 - final_positive
FinalNegative(vs, ds, t) == Hundred * Hundred * t - FinalPositive(vs, ds)

\* the sentiment_data dict of lines 245-251
SentimentData(vs, ds, t, tvs, tds, valid) ==
    [positive |-> RoundDiv(FinalPositive(vs, ds), t),
     neutral |-> RoundDiv(vs.neu * Hundred * Hundred, t),
     negative |-> RoundDiv(FinalNegative(vs, ds, t), t),
     avg_vader_score |-> IF valid > 0 THEN RoundDiv(tvs, valid) ELSE 0,
     avg_distilbert_score |-> IF valid > 0 THEN RoundDiv(tds, valid) ELSE 0]

-----------------------------------------------------------------------------
(* theme_analysis.py.                                                       *)

\* _group_comments_by_sentiment(detailed_sentiment)
_group_comments_by_sentiment(ds) ==
    LET Texts(keep(_)) ==
            LET kept == SelectSeq(ds, keep) IN [i \in DOMAIN kept |-> kept[i].text]
    IN  [positive |-> Texts(LAMBDA item : item.vader_score > PolarityCut
                                          /\ item.distilbert_label = "POSITIVE"),
         negative |-> Texts(LAMBDA item : item.vader_score < 0 - PolarityCut
                                          /\ item.distilbert_label = "NEGATIVE"),
         neutral |-> Texts(LAMBDA item : 0 - PolarityCut <= item.vader_score
                                         /\ item.vader_score <= PolarityCut)]

\* line.replace("**", "").replace("*", ""): no asterisk is left
Unmarked(line) == SelectSeq(line, LAMBDA c : c # "*")

\* line.startswith(("1.", "2.", "3.", "4.", "5."))
IsNumbered(line) ==
    \E d \in {"1", "2", "3", "4", "5"} : StartsWith(line, <<d, ".">>)

\* line.startswith(("###", "---"))
IsRule(line) == StartsWith(line, <<"#", "#", "#">>) \/ StartsWith(line, <<"-", "-", "-">>)

\* any(keyword in text for keyword in ["Explanation", "Classification", "Sentiment Analysis"])
HasKeyword(text) ==
    \/ Contains(text, sExplanation)
    \/ Contains(text, sClassification)
    \/ Contains(text, sSentimentAnalysis)

\* the loop of _extract_themes_from_content over the remaining lines
RECURSIVE ThemesLoop(_, _, _)
ThemesLoop(lines, in_themes_section, themes) ==
    IF lines = <<>> THEN themes
    ELSE LET line == Strip(Head(lines))
             clean == Unmarked(line)
         IN  IF Contains(line, sSummaryOfMainThemes) \/ Contains(line, sMainThemes)
             THEN ThemesLoop(Tail(lines), TRUE, themes)
             ELSE IF in_themes_section
                     /\ (Contains(line, sExplanation) \/ Contains(line, sClassification))
             THEN themes
             ELSE IF ~in_themes_section THEN ThemesLoop(Tail(lines), FALSE, themes)
             ELSE IF IsNumbered(clean)
             THEN ThemesLoop(Tail(lines), TRUE,
                             Append(themes, Strip(SubSeq(clean, 4, Len(clean)))))
             ELSE IF clean # <<>> /\ ~IsRule(clean)
             THEN ThemesLoop(Tail(lines), TRUE, Append(themes, clean))
             ELSE ThemesLoop(Tail(lines), TRUE, themes)

\* _extract_themes_from_content(content)
_extract_themes_from_content(content) ==
    ThemesLoop(SplitOn(content, <<"\n">>), FALSE, <<>>)

\* the loop over the lines of one section in _extract_explanation_from_content
RECURSIVE SectionLoop(_, _, _)
SectionLoop(lines, in_explanation, explanation_lines) ==
    IF lines = <<>> THEN explanation_lines
    ELSE LET line == Strip(Head(lines))
             clean == Strip(Unmarked(line))
         IN  IF HasKeyword(line) THEN SectionLoop(Tail(lines), TRUE, explanation_lines)
             ELSE IF IsRule(line) THEN explanation_lines
             ELSE IF in_explanation /\ line # <<>>
                     /\ clean # <<>> /\ ~IsRule(clean) /\ ~StartsWith(clean, <<"#", "#">>)
             THEN SectionLoop(Tail(lines), TRUE, Append(explanation_lines, clean))
             ELSE SectionLoop(Tail(lines), in_explanation, explanation_lines)

\* the loop over content.split("###"): the first section that yields lines decides
RECURSIVE SectionsLoop(_)
SectionsLoop(sections) ==
    IF sections = <<>> THEN <<>>
    ELSE LET explanation_lines ==
                 IF HasKeyword(Head(sections))
                 THEN SectionLoop(SplitOn(Head(sections), <<"\n">>), FALSE, <<>>)
                 ELSE <<>>
         IN  IF explanation_lines # <<>> THEN explanation_lines
             ELSE SectionsLoop(Tail(sections))

\* the loop of lines 96-102 over reversed(lines): it stops at the first keyword
\* line, and collects only after found_explanation is set
RECURSIVE TailLoop(_, _, _)
TailLoop(reversed_lines, found_explanation, explanation_lines) ==
    IF reversed_lines = <<>> THEN explanation_lines
    ELSE LET line == Strip(Head(reversed_lines))
         IN  IF HasKeyword(line) THEN explanation_lines
             ELSE IF found_explanation /\ line # <<>>
             THEN TailLoop(Tail(reversed_lines), found_explanation,
                           <<line>> \o explanation_lines)
             ELSE TailLoop(Tail(reversed_lines), found_explanation, explanation_lines)

\* reversed(lines)
Reversed(s) == [i \in DOMAIN s |-> s[Len(s) + 1 - i]]

\* _extract_explanation_from_content(content)
_extract_explanation_from_content(content) ==
    IF SectionsLoop(SplitOn(content, <<"#", "#", "#">>)) # <<>>
    THEN Join(SectionsLoop(SplitOn(content, <<"#", "#", "#">>)))
    ELSE IF TailLoop(Reversed(SplitOn(content, <<"\n">>)), FALSE, <<>>) # <<>>
    THEN Join(TailLoop(Reversed(SplitOn(content, <<"\n">>)), FALSE, <<>>))
    ELSE sNoExplanation

\* the dicts json.loads may return: has_* tell which keys the dict has
JsonDicts ==
    {d \in [has_themes : BOOLEAN, themes : {<<>>, <<sThemeA, sThemeB>>},
            has_explanation : BOOLEAN, explanation : {<<>>, sExplE}] :
        (~d.has_themes => d.themes = <<>>) /\ (~d.has_explanation => d.explanation = <<>>)}

\* what client.responses.create and _get_response_content may yield: an
\* exception of the call (content is its message), a content that is not a str,
\* on which len(content) at line 225 raises, content that json.loads turns
\* into a dict, or any other text
ThemeReplies ==
    {[kind |-> "raise", content |-> e, has_themes |-> FALSE, themes |-> <<>>,
      has_explanation |-> FALSE, explanation |-> <<>>] : e \in {sApiError, sNoLen}}
    \cup {[kind |-> "json", content |-> <<>>, has_themes |-> d.has_themes,
           themes |-> d.themes, has_explanation |-> d.has_explanation,
           explanation |-> d.explanation] : d \in JsonDicts}
    \cup {[kind |-> "text", content |-> c, has_themes |-> FALSE, themes |-> <<>>,
           has_explanation |-> FALSE, explanation |-> <<>>] :
            c \in {sReplySections, sReplyPlain, sReplyTail, sReplyRule, sReplyTight}}

\* a variant of generate_theme_analysis without the handler of lines 253-258:
\* a failure falls through to the sentinels of lines 248-251
generate_theme_analysis_unhandled(reply) ==
    IF reply.kind = "json"
    THEN [themes |-> IF reply.has_themes THEN reply.themes ELSE <<sNoThemes>>,
          explanation |-> IF reply.has_explanation THEN reply.explanation
                          ELSE sNoExplanation]
    ELSE IF reply.kind = "raise"
    THEN [themes |-> <<sNoThemes>>, explanation |-> sNoExplanation]
    ELSE [themes |-> IF _extract_themes_from_content(reply.content) # <<>>
                     THEN _extract_themes_from_content(reply.content)
                     ELSE <<sNoThemes>>,
          explanation |-> IF _extract_explanation_from_content(reply.content) # <<>>
                          THEN _extract_explanation_from_content(reply.content)
                          ELSE sNoExplanation]

\* generate_theme_analysis(...) when the capability answers reply
generate_theme_analysis(reply) ==
    IF reply.kind = "raise"
    THEN [themes |-> <<sErrorThemes>>, explanation |-> sUnable \o reply.content]
    ELSE IF reply.kind = "json"
    THEN [themes |-> IF reply.has_themes THEN reply.themes ELSE <<sNoThemes>>,
          explanation |-> IF reply.has_explanation THEN reply.explanation
                          ELSE sNoExplanation]
    ELSE [themes |-> IF _extract_themes_from_content(reply.content) # <<>>
                     THEN _extract_themes_from_content(reply.content)
                     ELSE <<sNoThemes>>,
          explanation |-> IF _extract_explanation_from_content(reply.content) # <<>>
                          THEN _extract_explanation_from_content(reply.content)
                          ELSE sNoExplanation]

-----------------------------------------------------------------------------
(* The state before anything has run.                                       *)

NoSentimentData == [positive |-> 0, neutral |-> 0, negative |-> 0,
                    avg_vader_score |-> 0, avg_distilbert_score |-> 0]

PreprocessIdle ==
    /\ filtered_comments = <<>>
    /\ similarity_matrix = <<>>
    /\ groups = <<>>
    /\ processed_comments = <<>>

ChunkIdle ==
    /\ parts = <<>>
    /\ chunks = <<>>

SummaryIdle ==
    /\ summarizer_calls = <<>>
    /\ chunk_replies = <<>>
    /\ chunk_summaries = <<>>
    /\ aggregate_reply = <<>>
    /\ final_summary = <<>>

ScoringIdle ==
    /\ idx = 0
    /\ vader_scores = [pos |-> 0, neu |-> 0, neg |-> 0]
    /\ distilbert_scores = [POSITIVE |-> 0, NEGATIVE |-> 0]
    /\ detailed_sentiment = <<>>
    /\ total_vader_score = 0
    /\ total_distilbert_score = 0
    /\ valid_comments = 0
    /\ total = 0
    /\ sentiment_data = NoSentimentData
    /\ grouped_comments = <<>>
    /\ theme_reply = <<>>
    /\ result = <<>>

preprocessVars == <<filtered_comments, similarity_matrix, groups, processed_comments>>
chunkVars == <<parts, chunks>>
summaryVars == <<summarizer_calls, chunk_replies, chunk_summaries, aggregate_reply,
                 final_summary>>
scoringVars == <<idx, vader_scores, distilbert_scores, detailed_sentiment,
                 total_vader_score, total_distilbert_score, valid_comments, total,
                 sentiment_data, grouped_comments, theme_reply, result>>

-----------------------------------------------------------------------------
(* preprocess_comments called on its own.                                   *)

InitPre ==
    /\ pc = "preprocess"
    /\ comments \in SeqsUpTo(SpamPool, MaxSpamLen) \cup SeqsUpTo(GroupPool, MaxGroupLen)
                       \cup {EndToEndInput}
    /\ chunk_size = DefaultChunkSize
    /\ PreprocessIdle /\ ChunkIdle /\ SummaryIdle /\ ScoringIdle

\* one call of preprocess_comments(comments), its locals kept for inspection
PreprocessComments ==
    /\ pc = "preprocess"
    /\ \E o \in preprocess_comments(comments) :
        /\ filtered_comments' = o.filtered
        /\ similarity_matrix' = o.similarity_matrix
        /\ groups' = o.groups
        /\ processed_comments' = o.out
        /\ pc' = IF o.raised THEN "raised" ELSE "returned"
    /\ UNCHANGED <<comments, chunk_size, chunkVars, summaryVars, scoringVars>>

NextPre == PreprocessComments

SpecPre == InitPre /\ [][NextPre]_vars

-----------------------------------------------------------------------------
(* chunk_comments called on its own, with any budget.                       *)

\* what preprocess_comments can hand over: distinct comments
Distinct(s) == \A i, j \in DOMAIN s : s[i] = s[j] => i = j

InitChunk ==
    /\ pc = "chunk"
    /\ comments \in {s \in SeqsUpTo(ChunkPool, MaxChunkInput) : Distinct(s)}
    /\ chunk_size \in 0..MaxBudget
    /\ PreprocessIdle /\ ChunkIdle /\ SummaryIdle /\ ScoringIdle

\* one call of chunk_comments(comments, chunk_size)
ChunkComments ==
    /\ pc = "chunk"
    /\ parts' = ChunkParts(comments, chunk_size)
    /\ chunks' = chunk_comments(comments, chunk_size)
    /\ pc' = "chunked"
    /\ UNCHANGED <<comments, chunk_size, preprocessVars, summaryVars, scoringVars>>

NextChunk == ChunkComments

SpecChunk == InitChunk /\ [][NextChunk]_vars

-----------------------------------------------------------------------------
(* Lines 180-183 of analyze_sentiment: the summaries of the chunks.         *)

\* chunk_summaries = [generate_summary(chunk) for chunk in chunks], one chunk per step
GenerateSummary ==
    /\ pc = "summarize"
    /\ Len(chunk_summaries) < Len(chunks)
    /\ \E reply \in SummaryReplies :
        LET chunk == chunks[Len(chunk_summaries) + 1]
            input_length == WordCount(chunk)
        IN  /\ summarizer_calls' = Append(summarizer_calls,
                                          <<input_length>> \o SummaryLengths(input_length))
            /\ chunk_replies' = Append(chunk_replies, reply)
            /\ chunk_summaries' = Append(chunk_summaries, generate_summary(chunk, reply))
    /\ UNCHANGED <<pc, comments, chunk_size, preprocessVars, chunkVars, aggregate_reply,
                   final_summary, scoringVars>>

\* final_summary = aggregate_summaries(chunk_summaries)
AggregateSummaries ==
    /\ pc = "summarize"
    /\ Len(chunk_summaries) = Len(chunks)
    /\ IF chunk_summaries = <<>>
       THEN /\ final_summary' = aggregate_summaries(chunk_summaries, Raised)
            /\ UNCHANGED <<summarizer_calls, aggregate_reply>>
       ELSE \E reply \in AggregateReplies :
            LET input_length == WordCount(Join(chunk_summaries))
            IN  /\ summarizer_calls' = Append(summarizer_calls,
                                              <<input_length>> \o AggregateLengths(input_length))
                /\ aggregate_reply' = <<reply>>
                /\ final_summary' = aggregate_summaries(chunk_summaries, reply)
    /\ pc' = "score"
    /\ UNCHANGED <<comments, chunk_size, preprocessVars, chunkVars, chunk_replies,
                   chunk_summaries, scoringVars>>

InitSumm ==
    /\ pc = "summarize"
    /\ comments = <<>>
    /\ chunk_size = DefaultChunkSize
    /\ chunks \in SeqsUpTo(ChunkTexts, MaxChunks)
    /\ parts = <<>>
    /\ PreprocessIdle /\ SummaryIdle /\ ScoringIdle

NextSumm == GenerateSummary \/ AggregateSummaries

SpecSumm == InitSumm /\ [][NextSumm]_vars

-----------------------------------------------------------------------------
(* analyze_sentiment.                                                       *)

\* the representatives the scoring loop is tried on
ScorePool == {sGood, sNice, sNotBad}

\* the comments analyze_sentiment is tried on
PipelinePool == {sBlank, sHi, sTheAnd, sIsOf, sGood}

Init ==
    /\ pc = "start"
    /\ comments \in SeqsUpTo(PipelinePool, MaxComments)
    /\ chunk_size = DefaultChunkSize
    /\ PreprocessIdle /\ ChunkIdle /\ SummaryIdle /\ ScoringIdle

\* the dict analyze_sentiment returns
Result(sd, summary, detailed, theme) ==
    [positive |-> sd.positive, neutral |-> sd.neutral, negative |-> sd.negative,
     summary |-> summary, detailed_sentiment |-> detailed,
     avg_vader_score |-> sd.avg_vader_score,
     avg_distilbert_score |-> sd.avg_distilbert_score,
     theme_analysis |-> theme]

\* lines 158-171: if not comments: return {...}
ReturnEmpty ==
    /\ pc = "start"
    /\ comments = <<>>
    /\ result' = <<Result(NoSentimentData, <<>>, <<>>,
                          [themes |-> <<>>, explanation |-> sNoComments])>>
    /\ pc' = "done"
    /\ UNCHANGED <<comments, chunk_size, preprocessVars, chunkVars, summaryVars, idx,
                   vader_scores, distilbert_scores, detailed_sentiment,
                   total_vader_score, total_distilbert_score, valid_comments, total,
                   sentiment_data, grouped_comments, theme_reply>>

\* line 174: processed_comments = preprocess_comments(comments); an exception
\* of preprocess_comments leaves analyze_sentiment
Preprocess ==
    /\ pc = "start"
    /\ comments # <<>>
    /\ \E o \in preprocess_comments(comments) :
        /\ processed_comments' = o.out
        /\ pc' = IF o.raised THEN "raised" ELSE "chunk"
    /\ UNCHANGED <<comments, chunk_size, filtered_comments, similarity_matrix, groups,
                   chunkVars, summaryVars, scoringVars>>

\* line 177: chunks = chunk_comments(processed_comments)
Chunk ==
    /\ pc = "chunk"
    /\ parts' = ChunkParts(processed_comments, chunk_size)
    /\ chunks' = chunk_comments(processed_comments, chunk_size)
    /\ pc' = "summarize"
    /\ UNCHANGED <<comments, chunk_size, preprocessVars, summaryVars, scoringVars>>

\* lines 195-227: one iteration of the loop over processed_comments
ScoreComment ==
    /\ pc = "score"
    /\ idx < Len(processed_comments)
    /\ \E vs \in PolarityReplies, dr \in LabelReplies :
        LET comment == processed_comments[idx + 1]
        IN  IF Strip(comment) = <<>>
            THEN /\ idx' = idx + 1
                 /\ UNCHANGED <<pc, vader_scores, distilbert_scores, detailed_sentiment,
                                total_vader_score, total_distilbert_score, valid_comments>>
            ELSE IF ~vs.ok
            THEN /\ pc' = "raised"
                 /\ UNCHANGED <<idx, vader_scores, distilbert_scores, detailed_sentiment,
                                total_vader_score, total_distilbert_score, valid_comments>>
            ELSE /\ idx' = idx + 1
                 /\ pc' = pc
                 /\ vader_scores' =
                        [vader_scores EXCEPT ![PolarityKey(vs.compound)] = @ + 1]
                 /\ IF ~dr.ok
                    THEN UNCHANGED <<distilbert_scores, detailed_sentiment,
                                     total_vader_score, total_distilbert_score,
                                     valid_comments>>
                    ELSE IF ~dr.has_score
                    THEN \* line 211 has counted the label when line 218 raises KeyError
                         /\ distilbert_scores' =
                                [distilbert_scores EXCEPT ![dr.label] = @ + 1]
                         /\ UNCHANGED <<detailed_sentiment, total_vader_score,
                                        total_distilbert_score, valid_comments>>
                    ELSE /\ distilbert_scores' =
                                [distilbert_scores EXCEPT ![dr.label] = @ + 1]
                         /\ detailed_sentiment' = Append(detailed_sentiment,
                                [text |-> comment, vader_score |-> vs.compound,
                                 distilbert_label |-> dr.label,
                                 distilbert_score |-> dr.score])
                         /\ total_vader_score' = total_vader_score + vs.compound
                         /\ total_distilbert_score' = total_distilbert_score + dr.score
                         /\ valid_comments' = valid_comments + 1
    /\ UNCHANGED <<comments, chunk_size, preprocessVars, chunkVars, summaryVars, total,
                   sentiment_data, grouped_comments, theme_reply, result>>

\* lines 229-251: the total, the blended percentages and the averages
ComputeSentimentData ==
    /\ pc = "score"
    /\ idx = Len(processed_comments)
    /\ total' = Total(vader_scores)
    /\ sentiment_data' = SentimentData(vader_scores, distilbert_scores, Total(vader_scores),
                                       total_vader_score, total_distilbert_score,
                                       valid_comments)
    /\ pc' = "theme"
    /\ UNCHANGED <<comments, chunk_size, preprocessVars, chunkVars, summaryVars, idx,
                   vader_scores, distilbert_scores, detailed_sentiment,
                   total_vader_score, total_distilbert_score, valid_comments,
                   grouped_comments, theme_reply, result>>

\* lines 254-269: theme_analysis = generate_theme_analysis(...); return {...}
ThemeAnalysis ==
    /\ pc = "theme"
    /\ grouped_comments' = <<_group_comments_by_sentiment(detailed_sentiment)>>
    /\ \E reply \in ThemeReplies :
        /\ theme_reply' = <<reply>>
        /\ result' = <<Result(sentiment_data, final_summary, detailed_sentiment,
                              generate_theme_analysis(reply))>>
    /\ pc' = "done"
    /\ UNCHANGED <<comments, chunk_size, preprocessVars, chunkVars, summaryVars, idx,
                   vader_scores, distilbert_scores, detailed_sentiment,
                   total_vader_score, total_distilbert_score, valid_comments, total,
                   sentiment_data>>

Next ==
    \/ ReturnEmpty
    \/ Preprocess
    \/ Chunk
    \/ GenerateSummary
    \/ AggregateSummaries
    \/ ScoreComment
    \/ ComputeSentimentData
    \/ ThemeAnalysis

Spec == Init /\ [][Next]_vars

-----------------------------------------------------------------------------
(* Lines 185-251 of analyze_sentiment on their own: the scoring loop and    *)
(* the percentages, entered with the representatives already computed.      *)

InitScore ==
    /\ pc = "score"
    /\ comments = <<>>
    /\ chunk_size = DefaultChunkSize
    /\ filtered_comments = <<>>
    /\ similarity_matrix = <<>>
    /\ groups = <<>>
    /\ processed_comments \in {cs \in SeqsUpTo(ScorePool, MaxScored) : Distinct(cs)}
    /\ ChunkIdle /\ SummaryIdle /\ ScoringIdle

NextScore == ScoreComment \/ ComputeSentimentData

SpecScore == InitScore /\ [][NextScore]_vars

-----------------------------------------------------------------------------
(* Lines 185-269 of analyze_sentiment: scoring followed by                  *)
(* generate_theme_analysis.                                                 *)

InitTheme ==
    /\ pc = "score"
    /\ comments = <<>>
    /\ chunk_size = DefaultChunkSize
    /\ filtered_comments = <<>>
    /\ similarity_matrix = <<>>
    /\ groups = <<>>
    /\ processed_comments \in {cs \in SeqsUpTo(ScorePool, MaxThemed) : Distinct(cs)}
    /\ ChunkIdle /\ SummaryIdle /\ ScoringIdle

NextTheme == ScoreComment \/ ComputeSentimentData \/ ThemeAnalysis

SpecTheme == InitTheme /\ [][NextTheme]_vars

-----------------------------------------------------------------------------
(* Properties.                                                              *)

ResultFields == {"positive", "neutral", "negative", "summary", "detailed_sentiment",
                 "avg_vader_score", "avg_distilbert_score", "theme_analysis"}

\* C1: whatever the comments and whatever the capabilities and the vectorizer
\* do, analyze_sentiment never raises and, once done, has returned a record
\* with all eight fields.
C1_AnalyzeNeverRaises ==
    /\ pc # "raised"
    /\ pc = "done" => Len(result) = 1 /\ DOMAIN result[1] = ResultFields

\* C2: when two or more comments survive the filter and the vectorizer finds
\* no vocabulary, preprocess_comments returns the filtered comments unchanged
\* instead of raising.
C2_EmptyVocabularyDegrades ==
    (pc \in {"returned", "raised"}
        /\ Len(filtered_comments) > 1 /\ Vocabulary(filtered_comments) = {})
    => (pc = "returned" /\ processed_comments = filtered_comments)

\* s is not empty, not whitespace only, and the trimmed form of an entry of cs
TrimmedEntry(s, cs) ==
    /\ s # <<>>
    /\ \E k \in DOMAIN s : s[k] \notin Whitespace
    /\ \E j \in DOMAIN cs : s = Strip(cs[j])

\* C3: the comments that leave the normalizer, and the comments
\* preprocess_comments returns, are never empty or whitespace only, are each the
\* trimmed form of an input entry, and are pairwise different; an empty input
\* returns an empty output without an error.
C3_NormalizedOutput ==
    /\ pc \in {"returned", "raised"} =>
        /\ \A i \in DOMAIN filtered_comments : TrimmedEntry(filtered_comments[i], comments)
        /\ Distinct(filtered_comments)
    /\ pc = "returned" =>
        /\ \A i \in DOMAIN processed_comments :
               TrimmedEntry(processed_comments[i], comments)
        /\ Distinct(processed_comments)
    /\ (pc # "preprocess" /\ comments = <<>>) =>
        (pc = "returned" /\ processed_comments = <<>>)

\* C3 witness: an input with a blank entry and two entries equal after
\* trimming, one of them padded, has returned the single trimmed comment.
C3_Witness ==
    /\ pc = "returned"
    /\ Len(comments) = 3
    /\ \E i \in DOMAIN comments : Strip(comments[i]) = <<>>
    /\ \E i, j \in DOMAIN comments :
        /\ i # j
        /\ comments[i] # Strip(comments[i])
        /\ Strip(comments[i]) = Strip(comments[j])
        /\ processed_comments = <<Strip(comments[i])>>

\* the spam rule in the claim's words: at most 3 characters, a character
\* repeated 5 times in a row, 10 uppercase letters in a row, or 3 exclamation
\* marks in a row
ClaimedSpam(s) ==
    \/ Len(s) <= 3
    \/ \E i \in 1..(Len(s) - 4) : \A k \in 1..4 : s[i + k] = s[i]
    \/ \E i \in 1..(Len(s) - 9) : \A k \in 0..9 : s[i + k] \in UpperCase
    \/ \E i \in 1..(Len(s) - 2) : \A k \in 0..2 : s[i + k] = "!"

\* C4: the spam filter drops "aaaaa", "hi", "THIS IS ALL CAPS" and "wow!!!",
\* keeps "This is a fine comment.", and in general drops a trimmed comment exactly
\* when it has at most 3 characters, 5 equal characters in a row, 10 uppercase
\* letters in a row or 3 exclamation marks in a row.
C4_SpamFilterAsClaimed ==
    pc \in {"returned", "raised"} =>
        \A i \in DOMAIN comments :
            LET c == Strip(comments[i])
                kept == \E k \in DOMAIN filtered_comments : filtered_comments[k] = c
            IN  c # <<>> =>
                    /\ c \in {sAaaaa, sHi, sAllCaps, sWow} => ~kept
                    /\ c = sFine => kept
                    /\ kept <=> ~ClaimedSpam(c)

\* the places (g, p) at which comment c is a member of a group
Memberships(c) ==
    {gp \in (DOMAIN groups) \X (1..Len(filtered_comments)) :
        gp[2] \in DOMAIN groups[gp[1]].members /\ groups[gp[1]].members[gp[2]] = c}

\* the position of comment c among the filtered comments
FilteredIndex(c) == CHOOSE k \in DOMAIN filtered_comments : filtered_comments[k] = c

\* C5: after the grouping loop over two or more filtered comments, every
\* filtered comment is a member of exactly one cluster, the output holds one
\* representative per cluster in the order the clusters were opened, and each
\* representative is a member of its cluster of maximal length, the first such
\* member.
C5_ClustersPartition ==
    (pc = "returned" /\ Len(filtered_comments) > 1) =>
        /\ \A k \in DOMAIN filtered_comments :
               Cardinality(Memberships(filtered_comments[k])) = 1
        /\ \A g \in DOMAIN groups : \A p \in DOMAIN groups[g].members :
               \E k \in DOMAIN filtered_comments :
                   filtered_comments[k] = groups[g].members[p]
        /\ Len(processed_comments) = Len(groups)
        /\ \A g, h \in DOMAIN groups :
               g < h => FilteredIndex(groups[g].members[1])
                            < FilteredIndex(groups[h].members[1])
        /\ \A g \in DOMAIN groups : \A p, q \in DOMAIN groups[g].members :
               p < q => FilteredIndex(groups[g].members[p])
                            < FilteredIndex(groups[g].members[q])
        /\ \A g \in DOMAIN groups :
               \E p \in DOMAIN groups[g].members :
                   /\ groups[g].members[p] = processed_comments[g]
                   /\ \A q \in DOMAIN groups[g].members :
                          Len(groups[g].members[q]) <= Len(processed_comments[g])
                   /\ \A q \in 1..(p - 1) :
                          Len(groups[g].members[q]) < Len(processed_comments[g])

\* C5 witness: three filtered comments fell into two clusters, and one cluster
\* has two members of the same, maximal length.
C5_Witness ==
    /\ pc = "returned"
    /\ Len(filtered_comments) = 3
    /\ Len(groups) = 2
    /\ \E g \in DOMAIN groups :
        /\ Len(groups[g].members) = 2
        /\ Len(groups[g].members[1]) = Len(groups[g].members[2])
        /\ processed_comments[g] = groups[g].members[1]

\* C6: every chunk of chunk_comments has at most chunk_size tokens, unless it
\* holds exactly one comment that alone has more than chunk_size tokens.
C6_ChunksWithinBudget ==
    pc = "chunked" =>
        /\ Len(parts) = Len(chunks)
        /\ \A k \in DOMAIN chunks :
            \/ WordCount(chunks[k]) <= chunk_size
            \/ Len(parts[k]) = 1 /\ WordCount(parts[k][1]) > chunk_size

\* C6 witness: one chunk is a single comment over the budget and another chunk
\* holds two comments within it.
C6_Witness ==
    /\ pc = "chunked"
    /\ \E k \in DOMAIN chunks : Len(parts[k]) = 1 /\ WordCount(chunks[k]) > chunk_size
    /\ \E k \in DOMAIN chunks : Len(parts[k]) = 2 /\ WordCount(chunks[k]) <= chunk_size

C8_FailedChunkIsolated ==
    /\ Len(chunk_summaries) = Len(chunk_replies)
    /\ Len(chunk_summaries) <= Len(chunks)
    /\ \A k \in DOMAIN chunk_summaries :
        chunk_summaries[k] = IF chunk_replies[k].ok THEN chunk_replies[k].text ELSE sFailed
    /\ pc = "score" => Len(chunk_summaries) = Len(chunks)

\* C8 witness: of three chunks the second failed and the other two did not.
C8_Witness ==
    /\ pc = "score"
    /\ Len(chunks) = 3
    /\ chunk_replies[1].ok /\ ~chunk_replies[2].ok /\ chunk_replies[3].ok
    /\ chunk_summaries[2] = sFailed
    /\ chunk_summaries[1] # sFailed /\ chunk_summaries[3] # sFailed

\* C9: when the aggregation call of the summarizer fails, the final summary is
\* the sequence of chunk summaries, unreduced and in order, and so is not empty
\* when some chunk was summarized successfully.
C9_AggregationFailureKeepsSummaries ==
    (pc = "score" /\ aggregate_reply # <<>> /\ ~aggregate_reply[1].ok) =>
        /\ final_summary = chunk_summaries
        /\ (\E k \in DOMAIN chunk_replies : chunk_replies[k].ok) => final_summary # <<>>

\* C9 witness: the aggregation call failed after one chunk was summarized and
\* another was not.
C9_Witness ==
    /\ pc = "score"
    /\ aggregate_reply # <<>> /\ ~aggregate_reply[1].ok
    /\ Len(chunk_summaries) = 2
    /\ chunk_replies[1].ok /\ ~chunk_replies[2].ok
    /\ final_summary = <<chunk_replies[1].text, sFailed>>

\* C10: when analyze_sentiment analyzes no comment (empty input, or every
\* comment removed as blank, duplicate or spam), the total is floored at 1 and the
\* positive, neutral and negative percentages are all 0.
C10_NoCommentsAllZero ==
    (pc = "done" /\ processed_comments = <<>>) =>
        /\ comments # <<>> => total = 1
        /\ result[1].positive = 0
        /\ result[1].neutral = 0
        /\ result[1].negative = 0


\* C11: the reported positive percentage is 0.3 * (pos / total * 100) +
\* 0.7 * (POSITIVE / total * 100) rounded to 2 decimals, the negative one is
\* 100 minus it, and when at least one comment was scored and every comment
\* was counted positive and labelled POSITIVE they are 100 and 0.
C11_BlendedPercentages ==
    pc = "theme" =>
        LET blend == 3000 * vader_scores.pos + 7000 * distilbert_scores.POSITIVE
            off == sentiment_data.positive * total - blend
        IN  /\ 2 * off <= total /\ 2 * (0 - off) <= total
            /\ sentiment_data.negative = 10000 - sentiment_data.positive
            /\ (/\ Len(processed_comments) >= 1
                /\ vader_scores.pos = Len(processed_comments)
                /\ distilbert_scores.POSITIVE = Len(processed_comments))
               => sentiment_data.positive = 10000 /\ sentiment_data.negative = 0

\* C11 witness: two comments were scored, both counted positive and labelled
\* POSITIVE, and the percentages have been computed.
C11_Witness ==
    /\ pc = "theme"
    /\ Len(processed_comments) = 2
    /\ vader_scores.pos = 2
    /\ distilbert_scores.POSITIVE = 2
    /\ sentiment_data.positive = 10000

\* C12: once the percentages are computed, positive + neutral + negative is
\* 100, up to the rounding of the three values to 2 decimals.
C12_PercentagesSumTo100 ==
    pc = "theme" =>
        LET sum == sentiment_data.positive + sentiment_data.neutral
                       + sentiment_data.negative
        IN  sum - 10000 <= 2 /\ 10000 - sum <= 2

\* C12 as amended: for a non-empty input, positive + negative is 100 up to
\* rounding, and neutral is neu / total * 100 rounded to 2 decimals, reported
\* on top of them.
C12_PositiveAndNegativeSumTo100 ==
    pc = "theme" =>
        LET sum == sentiment_data.positive + sentiment_data.negative
            off == sentiment_data.neutral * total - 10000 * vader_scores.neu
        IN  /\ sum - 10000 <= 1 /\ 10000 - sum <= 1
            /\ 2 * off <= total /\ 2 * (0 - off) <= total

\* C12 witness: a comment was counted neutral and one was not, so that all
\* three percentages are above 0.
C12_Witness ==
    /\ pc = "theme"
    /\ vader_scores.neu = 1
    /\ total = 2
    /\ sentiment_data.neutral = 5000
    /\ sentiment_data.positive > 0
    /\ sentiment_data.negative > 0

\* C13: on every path the returned theme report has a non-empty themes list
\* and a non-empty explanation.
C13_ThemeReportNeverEmpty ==
    pc = "done" =>
        /\ result[1].theme_analysis.themes # <<>>
        /\ result[1].theme_analysis.explanation # <<>>

C15_EndToEndKeepsThree ==
    (comments = EndToEndInput /\ pc = "returned") =>
        /\ Len(filtered_comments) = 3
        /\ Len(processed_comments) <= 4
        /\ Len(processed_comments) = 3

\* C15 as amended: on the end-to-end input the normalizer collapses the two
\* "Great service!" into one and drops "meh" as spam, so two comments survive
\* it, the call returns, and one or two representatives, each one of the two
\* survivors, are passed to the scorer.
C15_EndToEndKeepsTwo ==
    comments = EndToEndInput =>
        /\ pc # "raised"
        /\ pc = "returned" =>
               /\ Len(filtered_comments) = 2
               /\ Range(filtered_comments) = {sGreatService, sTerrible}
               /\ Len(processed_comments) \in {1, 2}
               /\ Range(processed_comments) \subseteq Range(filtered_comments)

\* C15 witness: preprocess_comments has returned two representatives for the
\* end-to-end input.
C15_Witness ==
    /\ comments = EndToEndInput
    /\ pc = "returned"
    /\ Len(processed_comments) = 2

\* the texts of the entries are those of the comments consumed so far, in the
\* same order, with some left out
RECURSIVE IsSubsequence(_, _)
IsSubsequence(s, t) ==
    IF s = <<>> THEN TRUE
    ELSE IF t = <<>> THEN FALSE
    ELSE IF Head(s) = Head(t) THEN IsSubsequence(Tail(s), Tail(t))
    ELSE IsSubsequence(s, Tail(t))

\* C16: every consumed comment is counted in exactly one polarity tally; the
\* number of DetailedSentiment entries equals the number of comments that
\* entered the averages and the POSITIVE + NEGATIVE label counts, is at most
\* the polarity total, and the entries follow the order of the processed
\* comments; the averages are taken over those comments and are 0 when
\* there are none.
C16_LabelFailureSkipsComment ==
    LET tally == vader_scores.pos + vader_scores.neu + vader_scores.neg
        entries == Len(detailed_sentiment)
        offv == sentiment_data.avg_vader_score * entries - total_vader_score
        offd == sentiment_data.avg_distilbert_score * entries - total_distilbert_score
    IN  /\ tally = idx
        /\ entries = valid_comments
        /\ entries = distilbert_scores.POSITIVE + distilbert_scores.NEGATIVE
        /\ entries <= tally
        /\ IsSubsequence([i \in DOMAIN detailed_sentiment |-> detailed_sentiment[i].text],
                         SubSeq(processed_comments, 1, idx))
        /\ pc = "theme" =>
               IF entries = 0
               THEN /\ sentiment_data.avg_vader_score = 0
                    /\ sentiment_data.avg_distilbert_score = 0
               ELSE /\ 2 * offv <= entries /\ 2 * (0 - offv) <= entries
                    /\ 2 * offd <= entries /\ 2 * (0 - offd) <= entries

\* C17: once the entries are grouped, an entry is in the neutral group exactly
\* when the scorer counted its polarity as neutral, an entry of the positive
\* (negative) group was counted positive (negative) and is labelled POSITIVE
\* (NEGATIVE), and no text is in two groups.
C17_GroupsFollowScorerThresholds ==
    grouped_comments # <<>> =>
        LET g == grouped_comments[1]
        IN  /\ \A i \in DOMAIN detailed_sentiment :
                  LET e == detailed_sentiment[i]
                  IN  /\ e.text \in Range(g.neutral) <=> PolarityKey(e.vader_score) = "neu"
                      /\ e.text \in Range(g.positive) =>
                             /\ PolarityKey(e.vader_score) = "pos"
                             /\ e.distilbert_label = "POSITIVE"
                      /\ e.text \in Range(g.negative) =>
                             /\ PolarityKey(e.vader_score) = "neg"
                             /\ e.distilbert_label = "NEGATIVE"
            /\ Range(g.positive) \cap Range(g.negative) = {}
            /\ Range(g.positive) \cap Range(g.neutral) = {}
            /\ Range(g.negative) \cap Range(g.neutral) = {}

\* the stripped lines of a reply
ReplyLines(content) ==
    LET lines == SplitOn(content, <<"\n">>)
    IN  [i \in DOMAIN lines |-> Strip(lines[i])]

\* the non-empty lines a backward scan passes before it meets the last
\* heading line, in their original order
LinesAfterLastHeading(content) ==
    LET lines == ReplyLines(content)
        last == CHOOSE i \in DOMAIN lines :
                    /\ HasKeyword(lines[i])
                    /\ \A j \in DOMAIN lines : HasKeyword(lines[j]) => j <= i
    IN  SelectSeq(SubSeq(lines, last + 1, Len(lines)), LAMBDA l : l # <<>>)

\* C18: for a text reply whose section scan yields no explanation lines and
\* that has a heading line with non-empty text around it, the explanation is
\* not the sentinel, and it is the non-empty lines the backward scan passed
\* before the heading, in original order and joined by spaces, when there
\* are such lines.
C18_FallbackExplanation ==
    (/\ pc = "done"
     /\ theme_reply # <<>>
     /\ theme_reply[1].kind = "text"
     /\ SectionsLoop(SplitOn(theme_reply[1].content, <<"#", "#", "#">>)) = <<>>
     /\ \E i \in DOMAIN ReplyLines(theme_reply[1].content) :
            HasKeyword(ReplyLines(theme_reply[1].content)[i])
     /\ \E i \in DOMAIN ReplyLines(theme_reply[1].content) :
            /\ ReplyLines(theme_reply[1].content)[i] # <<>>
            /\ ~HasKeyword(ReplyLines(theme_reply[1].content)[i]))
    => /\ result[1].theme_analysis.explanation # sNoExplanation
       /\ LinesAfterLastHeading(theme_reply[1].content) # <<>> =>
              result[1].theme_analysis.explanation
                  = Join(LinesAfterLastHeading(theme_reply[1].content))

\* the themes the claim describes: the lines strictly between the first
\* "Main Themes" line and the next line with "Explanation" or
\* "Classification", emphasis markers removed, a numbered line without its
\* two-character prefix, the other non-empty, non-heading lines as they are
WindowThemes(content) ==
    LET lines == ReplyLines(content)
        IsHeading(l) == Contains(l, sMainThemes)
        IsEnd(l) == Contains(l, sExplanation) \/ Contains(l, sClassification)
        starts == {i \in DOMAIN lines : IsHeading(lines[i])}
        first == CHOOSE i \in starts : \A j \in starts : i <= j
        ends == {i \in DOMAIN lines : i > first /\ IsEnd(lines[i]) /\ ~IsHeading(lines[i])}
        stop == IF ends = {} THEN Len(lines) + 1
                ELSE CHOOSE i \in ends : \A j \in ends : i <= j
        window == SubSeq(lines, first + 1, stop - 1)
        clean == [i \in DOMAIN window |-> Unmarked(window[i])]
        kept == SelectSeq(clean, LAMBDA l : l # <<>> /\ ~IsHeading(l)
                                            /\ (IsNumbered(l) \/ ~IsRule(l)))
    IN  IF starts = {} THEN <<>>
        ELSE [i \in DOMAIN kept |->
                 IF IsNumbered(kept[i]) THEN Strip(SubSeq(kept[i], 3, Len(kept[i])))
                 ELSE kept[i]]

\* C20: for a text reply the themes of the report are the lines of the
\* window between the "Main Themes" line and the next "Explanation" or
\* "Classification" line, numbered lines without their "1." to "5." prefix,
\* and the themes sentinel when there are none.
C20_ThemesFromWindow ==
    (pc = "done" /\ theme_reply # <<>> /\ theme_reply[1].kind = "text") =>
        result[1].theme_analysis.themes =
            IF WindowThemes(theme_reply[1].content) = <<>> THEN <<sNoThemes>>
            ELSE WindowThemes(theme_reply[1].content)

\* the positions among the filtered comments of the members of cluster g
ClusterIndices(g) ==
    {FilteredIndex(groups[g].members[p]) : p \in DOMAIN groups[g].members}

\* C19: after the grouping loop, the cluster opened by seed i holds i and
\* exactly the j > i that no earlier cluster holds and whose similarity to i
\* is above 0.7, whatever their similarity to other members; and when no
\* pair is above 0.7 the output is the filtered input, in the same order.
C19_SeedAnchoredClusters ==
    (pc = "returned" /\ similarity_matrix # <<>>) =>
        LET m == similarity_matrix[1]
            Seed(g) == FilteredIndex(groups[g].members[1])
            Earlier(g) == UNION {ClusterIndices(h) : h \in 1..(g - 1)}
        IN  /\ \A g \in DOMAIN groups : \A j \in DOMAIN filtered_comments :
                   j \in ClusterIndices(g) <=>
                       \/ j = Seed(g)
                       \/ /\ j > Seed(g)
                          /\ j \notin Earlier(g)
                          /\ m[<<Seed(g), j>>] > 70
            /\ (\A p \in DOMAIN m : m[p] <= 70) => processed_comments = filtered_comments

\* C19 witness: of three filtered comments the second is similar to the first
\* and the third to the second only; the third opened its own cluster.
C19_Witness ==
    /\ pc = "returned"
    /\ similarity_matrix # <<>>
    /\ Len(filtered_comments) = 3
    /\ similarity_matrix[1][<<1, 2>>] > 70
    /\ similarity_matrix[1][<<2, 3>>] > 70
    /\ similarity_matrix[1][<<1, 3>>] = 70
    /\ Len(groups) = 2
    /\ groups[2].members = <<filtered_comments[3]>>

=============================================================================
